---- MODULE Spec2Model ----
(***************************************************************************)
(* Model of src/virusPresenceInAnts.js: the CSV loader, the indentation    *)
(* assignment, the radial layout pass and the selection handlers of the    *)
(* virus-presence chart.                                                   *)
(*                                                                         *)
(* Representation.                                                         *)
(*  - A CSV line is the sequence of its comma-separated fields.  A header  *)
(*    field is the sequence of its blank-separated words (<<>> is a blank  *)
(*    field); a data field is a string.                                    *)
(*  - Record (virus) names and classification names are identifiers: they  *)
(*    contain no "_" and are never the literal "1"; names are unique.      *)
(*  - Degrees are exact rationals, stored multiplied by 2*numVP (DegU), so *)
(*    that 360/numVP and its half are integers.                            *)
(*  - Indices keep the 0-based values of the source (vi, aSi, aPi).        *)
(*                                                                         *)
(* Variables.                                                              *)
(*  data           text of data/ActiveViruses.csv (header line, data lines) *)
(*  pc             "fetching", then "rendered" (success ran to its end),   *)
(*                 "threw" (success ended with an exception) or "failed"   *)
(*                 (error callback)                                        *)
(*  colTitle .. tLeg   the locals of success of the same names, as they    *)
(*                 are when the callback ends                              *)
(*  selectedEntry  the array of selected entry names                       *)
(*  rAttr          attribute r of the circle of each dot of vpd            *)
(*  scene          ids of the appended line and label elements             *)
(*  legEmph        ids of the legend texts shown bold and underlined       *)
(*  log            the last two dispatched events (history)                *)
(***************************************************************************)
EXTENDS Integers, Sequences, FiniteSets, TLC

VARIABLES data, pc, colTitle, aSpNames, csvData, numVP, vMP,
          vpd, pad, sad, mad, tLeg,
          selectedEntry, rAttr, scene, legEmph, log

vars == <<data, pc, colTitle, aSpNames, csvData, numVP, vMP,
          vpd, pad, sad, mad, tLeg,
          selectedEntry, rAttr, scene, legEmph, log>>

loaded == <<colTitle, aSpNames, csvData, numVP, vMP, vpd, pad, sad, mad, tLeg>>
ui == <<selectedEntry, rAttr, scene, legEmph, log>>

----------------------------------------------------------------------------
(* Bounds *)

\* largest number of data lines of an input
MaxRows == 2
\* largest number of connecting-line and label elements in the scene
MaxScene == 4

----------------------------------------------------------------------------
(* Generic helpers *)

Range(s) == {s[i] : i \in 1..Len(s)}

Max(S) == CHOOSE x \in S : \A y \in S : y <= x

Min(S) == CHOOSE x \in S : \A y \in S : x <= y

\* Array.prototype.includes
Includes(arr, x) == \E i \in 1..Len(arr) : arr[i] = x

\* Number.prototype.toString of an index
IdxStr(n) == ToString(n)

----------------------------------------------------------------------------
(* Program constants *)

numPopulations == 3

\* the two column titles the layout pass reads by name
VirusSpeciesTitle == <<"Virus", "species">>
ClassificationTitle == <<"Classification">>

----------------------------------------------------------------------------
(* Conversions of the loader *)

\* items[i].replace(/\s+/g,"") on the data fields of the inputs
Strip(s) ==
    CASE s = " 1" -> "1"
      [] s = "0 " -> "0"
      [] s = " "  -> ""
      [] OTHER    -> s

\* parseInt of a stripped field (or of undefined, for a missing column):
\* the integer as its decimal string, or "NaN"
ParseInt(s) ==
    CASE s = "0" -> "0"
      [] s = "1" -> "1"
      [] OTHER   -> "NaN"

\* parseInt(x) == 0
ParsesToZero(s) == ParseInt(s) = "0"

\* names[0] + " " + names[1] of a column title
ASpName(title) ==
    IF Len(title) >= 2 THEN title[1] \o " " \o title[2]
    ELSE IF Len(title) = 1 THEN title[1] \o " undefined"
    ELSE " undefined"

\* a header field that is empty after removing blanks
IsBlankTitle(title) == title = <<>>

----------------------------------------------------------------------------
(* Loader: column titles and ant species names *)

ColTitleOf(header) == SelectSeq(header, LAMBDA t : ~IsBlankTitle(t))

RECURSIVE ASpNamesFrom(_, _, _)
ASpNamesFrom(cT, ci, acc) ==
    IF ci > Len(cT) THEN acc
    ELSE LET n == ASpName(cT[ci])
         IN ASpNamesFrom(cT, ci + 1, IF Includes(acc, n) THEN acc ELSE Append(acc, n))

\* from column-index 2 (0-based) the ant species columns start
ASpNamesOf(cT) == ASpNamesFrom(cT, 3, <<>>)

----------------------------------------------------------------------------
(* Loader: one data line *)

\* a line with exactly as many fields as there are titles is dropped too
SkipRow_OrEqual(items, cT) == Len(items) <= Len(cT)

\* a data line is dropped when it has fewer fields than there are column titles
SkipRow(items, cT) == Len(items) < Len(cT)

\* colVal of every column of a retained line
ColVals(items, cT) == [ci \in 1..Len(cT) |-> Strip(items[ci])]

\* lineData: column title -> value; a later column with the same title wins
LineData(items, cT) ==
    LET vals == ColVals(items, cT)
    IN [t \in Range(cT) |-> vals[Max({ci \in 1..Len(cT) : cT[ci] = t})]]

\* the test that counts a cell as a presence
IsPresent(colVal) == colVal = "1"

PresenceCnt(items, cT) ==
    Cardinality({ci \in 1..Len(cT) : IsPresent(ColVals(items, cT)[ci])})

RECURSIVE AntSpeciesFrom(_, _, _, _)
AntSpeciesFrom(vals, cT, ci, acc) ==
    IF ci > Len(cT) THEN acc
    ELSE LET n == ASpName(cT[ci])
         IN AntSpeciesFrom(vals, cT, ci + 1,
               IF IsPresent(vals[ci]) /\ ~Includes(acc, n) THEN Append(acc, n) ELSE acc)

AntSpeciesOf(items, cT) == AntSpeciesFrom(ColVals(items, cT), cT, 1, <<>>)

\* vMP[vSp] = entry: an existing key keeps its position, a new key goes last
VMPPut(m, e) ==
    IF \E k \in 1..Len(m) : m[k].vSp = e.vSp
    THEN [k \in 1..Len(m) |-> IF m[k].vSp = e.vSp THEN e ELSE m[k]]
    ELSE Append(m, e)

\* a virus with exactly two presences is not recorded
IsMultiPresence_MoreThanTwo(cnt) == cnt > 2

\* the line is recorded as a multi-presence virus
IsMultiPresence(cnt) == cnt > 1

RECURSIVE ParseLines(_, _, _, _)
ParseLines(rows, cT, li, acc) ==
    IF li > Len(rows) THEN acc
    ELSE IF SkipRow(rows[li], cT) THEN ParseLines(rows, cT, li + 1, acc)
    ELSE LET items == rows[li]
             lineData == LineData(items, cT)
             cnt == PresenceCnt(items, cT)
             entry == [vSp |-> lineData[cT[1]],
                       indentLevel |-> 0,
                       presenceCnt |-> cnt,
                       antSpecies |-> AntSpeciesOf(items, cT),
                       degArr |-> <<>>,
                       vi |-> li - 1]
         IN ParseLines(rows, cT, li + 1,
               [csvData |-> Append(acc.csvData, lineData),
                numVP |-> acc.numVP + cnt,
                vMP |-> IF IsMultiPresence(cnt) THEN VMPPut(acc.vMP, entry) ELSE acc.vMP])

ParseCSV(d) ==
    ParseLines(d.rows, ColTitleOf(d.header), 1,
               [csvData |-> <<>>, numVP |-> 0, vMP |-> <<>>])

----------------------------------------------------------------------------
(* Indentation assignment *)

\* virus occurred across multiple ant species
IsCross(e) == Len(e.antSpecies) > 1

SetIndent(m, k, lvl) == [m EXCEPT ![k].indentLevel = lvl]

\* inner loop over Object.keys(vMP) for one ant species; cnt is indentLevel[si]
RECURSIVE IndentSpecies(_, _, _, _)
IndentSpecies(m, aSp, k, cnt) ==
    IF k > Len(m) THEN [vMP |-> m, cnt |-> cnt]
    ELSE IF IsCross(m[k]) THEN IndentSpecies(m, aSp, k + 1, cnt)
    ELSE IF ~Includes(m[k].antSpecies, aSp) THEN IndentSpecies(m, aSp, k + 1, cnt)
    ELSE IndentSpecies(SetIndent(m, k, cnt + 1), aSp, k + 1, cnt + 1)

\* outer loop over the ant species; levels is the indentLevel array
RECURSIVE IndentPerSpecies(_, _, _, _)
IndentPerSpecies(m, names, si, levels) ==
    IF si > Len(names) THEN [vMP |-> m, indentLevel |-> levels]
    ELSE LET r == IndentSpecies(m, names[si], 1, 0)
         IN IndentPerSpecies(r.vMP, names, si + 1, Append(levels, r.cnt))

\* the levels of the cross-species viruses start over instead of continuing
CrossStart_FromZero(levels) == 0

\* indentLevel = Math.max(...indentLevel) + 1   (names is never empty here)
CrossStart(levels) == Max(Range(levels)) + 1

\* the level is not advanced from one cross-species virus to the next
CrossNext_Same(lvl) == lvl

\* indentLevel += 1, then assigned
CrossNext(lvl) == lvl + 1

RECURSIVE IndentCross(_, _, _)
IndentCross(m, k, lvl) ==
    IF k > Len(m) THEN m
    ELSE IF IsCross(m[k])
         THEN IndentCross(SetIndent(m, k, CrossNext(lvl)), k + 1, CrossNext(lvl))
         ELSE IndentCross(m, k + 1, lvl)

AssignIndent(m, names) ==
    LET r == IndentPerSpecies(m, names, 1, <<>>)
    IN IndentCross(r.vMP, 1, CrossStart(r.indentLevel))

----------------------------------------------------------------------------
(* Graph parameters.  Degrees are stored multiplied by 2*numVP; the radius *)
(* of a presence dot is stored in quarters of radVP.                       *)

\* a number of degrees, in the stored unit
DegU(x, n) == x * 2 * n

\* vpDeg = 360.0 / numVP, in the stored unit
vpDeg == 720

\* radVP, in quarters of itself
radVP == 4

\* radVP * 1.25: a dot of a virus that occurs across ant species
RadCross == (radVP * 5) \div 4

\* radVP * 1.5: an emphasized dot
RadEmph == (radVP * 3) \div 2

----------------------------------------------------------------------------
(* Layout pass.  c is the loader's result: colTitle, csvData, numVP,       *)
(* aSpNames.  a is the state of the loops: cntDrawnVP, vpd, pad, sad, vMP, *)
(* tLeg, the global deg (degDef: it has been assigned), spBeginDeg,        *)
(* pBeginDeg, and threw (an exception ended the callback).                 *)

\* csvData[vi][colTitle[ci]], with ci and vi 0-based; a column index past the
\* titles reads undefined
CellAt(c, vi, ci) ==
    IF ci + 1 <= Len(c.colTitle) THEN c.csvData[vi + 1][c.colTitle[ci + 1]]
    ELSE "undefined"

\* csvData[vi][title] for a title given by name
FieldAt(c, vi, title) ==
    IF title \in DOMAIN c.csvData[vi + 1] THEN c.csvData[vi + 1][title]
    ELSE "undefined"

\* no presence, skip this column
NoPresence(c, vi, ci) == ParsesToZero(CellAt(c, vi, ci))

\* vSp in vMP
InVMP(m, vSp) == \E k \in 1..Len(m) : m[k].vSp = vSp

VMPGet(m, vSp) == m[CHOOSE k \in 1..Len(m) : m[k].vSp = vSp]

PushDegArr(m, vSp, d) ==
    [k \in 1..Len(m) |->
        IF m[k].vSp = vSp THEN [m[k] EXCEPT !.degArr = Append(@, d)] ELSE m[k]]

\* tLeg[vCl]: a sequence of [cl, vs] in key-insertion order
TLegHas(t, vCl) == \E k \in 1..Len(t) : t[k].cl = vCl

TLegGet(t, vCl) == t[CHOOSE k \in 1..Len(t) : t[k].cl = vCl].vs

TLegAdd(t, vCl, vSp) ==
    LET t1 == IF TLegHas(t, vCl) THEN t ELSE Append(t, [cl |-> vCl, vs |-> <<>>])
    IN [k \in 1..Len(t1) |->
          IF t1[k].cl = vCl /\ ~Includes(t1[k].vs, vSp)
          THEN [t1[k] EXCEPT !.vs = Append(@, vSp)] ELSE t1[k]]

\* deg = cntDrawnVP * vpDeg; deg = deg + 180
DegOfSlot(cnt, n) == cnt * vpDeg + DegU(180, n)

\* radius of the dot: enlarged when the virus occurs across ant species
DotRadius(m, vSp) ==
    IF InVMP(m, vSp) /\ Len(VMPGet(m, vSp).antSpecies) > 1 THEN RadCross ELSE radVP

\* one presence dot: the body of the virus loop after the skip test
DrawDot(c, si, pi, vi, a) ==
    LET deg == DegOfSlot(a.cntDrawnVP, c.numVP)
        vSp == FieldAt(c, vi, VirusSpeciesTitle)
        vCl == FieldAt(c, vi, ClassificationTitle)
        inM == InVMP(a.vMP, vSp)
        dot == [deg |-> deg,
                ind |-> IF inM THEN VMPGet(a.vMP, vSp).indentLevel ELSE 0,
                r |-> DotRadius(a.vMP, vSp),
                aSi |-> si, aPi |-> pi, vSp |-> vSp, vCl |-> vCl]
    IN [a EXCEPT !.deg = deg,
                 !.degDef = TRUE,
                 !.spBeginDeg = IF @ = DegU(-1, c.numVP) THEN deg ELSE @,
                 !.pBeginDeg = IF @ = DegU(-1, c.numVP) THEN deg ELSE @,
                 !.cntDrawnVP = @ + 1,
                 !.vMP = IF inM THEN PushDegArr(@, vSp, deg + DegU(90, c.numVP)) ELSE @,
                 !.vpd = Append(@, dot),
                 !.tLeg = TLegAdd(@, vCl, vSp)]

RECURSIVE VirusLoop(_, _, _, _, _)
VirusLoop(c, si, pi, vi, a) ==
    IF vi >= Len(c.csvData) THEN a
    ELSE IF NoPresence(c, vi, 2 + si * numPopulations + pi)
         THEN VirusLoop(c, si, pi, vi + 1, a)
         ELSE VirusLoop(c, si, pi, vi + 1, DrawDot(c, si, pi, vi, a))

\* population arc: beginDeg = pBeginDeg + 90 - vpDeg/2, endDeg = deg + 90 + vpDeg/2
PopArc(c, si, pi, a) ==
    [bDeg |-> a.pBeginDeg + DegU(90, c.numVP) - (vpDeg \div 2),
     eDeg |-> a.deg + DegU(90, c.numVP) + (vpDeg \div 2),
     aSi |-> si, aPi |-> pi,
     text |-> "Pop." \o IdxStr(pi + 1)]

\* species arc: beginDeg = spBeginDeg + 90 - vpDeg/2, endDeg = deg + 90 + vpDeg/2
SpArc(c, si, a) ==
    [bDeg |-> a.spBeginDeg + DegU(90, c.numVP) - (vpDeg \div 2),
     eDeg |-> a.deg + DegU(90, c.numVP) + (vpDeg \div 2),
     aSi |-> si,
     text |-> c.aSpNames[si + 1]]

RECURSIVE PopLoop(_, _, _, _)
PopLoop(c, si, pi, a) ==
    IF pi >= numPopulations THEN a
    ELSE LET a1 == VirusLoop(c, si, pi, 0, [a EXCEPT !.pBeginDeg = DegU(-1, c.numVP)])
         IN IF ~a1.degDef
            THEN [a1 EXCEPT !.threw = TRUE]   \* deg is read before any assignment
            ELSE PopLoop(c, si, pi + 1, [a1 EXCEPT !.pad = Append(@, PopArc(c, si, pi, a1))])

RECURSIVE SpLoop(_, _, _)
SpLoop(c, si, a) ==
    IF si >= Len(c.aSpNames) THEN a
    ELSE LET a1 == PopLoop(c, si, 0, [a EXCEPT !.spBeginDeg = DegU(-1, c.numVP)])
         IN IF a1.threw THEN a1
            ELSE SpLoop(c, si + 1, [a1 EXCEPT !.sad = Append(@, SpArc(c, si, a1))])

Layout(c, m) ==
    SpLoop(c, 0, [cntDrawnVP |-> 0, vpd |-> <<>>, pad |-> <<>>, sad |-> <<>>,
                  vMP |-> m, tLeg |-> <<>>, deg |-> 0, degDef |-> FALSE,
                  spBeginDeg |-> 0, pBeginDeg |-> 0, threw |-> FALSE])

----------------------------------------------------------------------------
(* Multi-presence arcs *)

\* csvData[data['vi']] is undefined: reading its 'Classification' throws
MadThrows(c, m) == \E k \in 1..Len(m) : m[k].vi >= Len(c.csvData)

MadArc(c, e) ==
    [bDeg |-> Min(Range(e.degArr)),
     eDeg |-> Max(Range(e.degArr)),
     indentLevel |-> e.indentLevel,
     add_thick |-> IF Len(e.antSpecies) > 1 THEN 1 ELSE 0,
     vSp |-> e.vSp,
     vCl |-> FieldAt(c, e.vi, ClassificationTitle)]

MadOf(c, m) == [k \in 1..Len(m) |-> MadArc(c, m[k])]

----------------------------------------------------------------------------
(* Legend: Object.keys(tLeg).sort() and tLeg[key].sort()                   *)

\* strings in the order of Array.prototype.sort (UTF-16 code units)
StrOrder == <<"Picornavirales", "Unclassified", "vA", "vB", "vC", "vD">>

StrRank(x) == CHOOSE i \in 1..Len(StrOrder) : StrOrder[i] = x

RECURSIVE SortStrs(_)
SortStrs(arr) ==
    IF arr = <<>> THEN <<>>
    ELSE LET i == CHOOSE i \in 1..Len(arr) :
                      \A j \in 1..Len(arr) : StrRank(arr[i]) <= StrRank(arr[j])
         IN <<arr[i]>> \o SortStrs(SubSeq(arr, 1, i - 1) \o SubSeq(arr, i + 1, Len(arr)))

\* tLeg after the legend is built: every list sorted in place
TLegSorted(t) == [k \in 1..Len(t) |-> [t[k] EXCEPT !.vs = SortStrs(@)]]

----------------------------------------------------------------------------
(* Selection handlers.  g is the drawn graph: vpd, vMP, tLeg.  u is the    *)
(* mutable part: selectedEntry, rAttr (attribute r of the circle of each   *)
(* dot), scene (ids of the appended line and label elements, in document   *)
(* order) and legEmph (ids of the legend texts shown bold and underlined). *)
(* An element id is the tuple of its "_"-separated parts.                  *)

\* id of the circle of a dot
DotId(d) == <<"vDot", d.vSp, IdxStr(d.aSi), IdxStr(d.aPi)>>

\* d3.select("#id") on the circles: the first circle with that id
SelectDot(g, id) ==
    {i \in 1..Len(g.vpd) :
        DotId(g.vpd[i]) = id /\ \A j \in 1..(i - 1) : DotId(g.vpd[j]) # id}

\* ids of the legend texts
LegendIds(g) ==
    {<<"legCl", g.tLeg[k].cl>> : k \in 1..Len(g.tLeg)}
    \cup UNION {{<<"legV", g.tLeg[k].vs[j]>> : j \in 1..Len(g.tLeg[k].vs)} : k \in 1..Len(g.tLeg)}

\* arrayRemove: every element equal to value is dropped
arrayRemove(arr, value) == SelectSeq(arr, LAMBDA ele : ele # value)

\* d3.select("#id").remove() on the appended elements: the first one goes
RemoveFirst(sc, id) ==
    IF Includes(sc, id)
    THEN LET i == Min({j \in 1..Len(sc) : sc[j] = id})
         IN SubSeq(sc, 1, i - 1) \o SubSeq(sc, i + 1, Len(sc))
    ELSE sc

emphLegTxt(g, u, flagEmph, objId) ==
    IF objId \notin LegendIds(g) THEN u
    ELSE IF flagEmph THEN [u EXCEPT !.legEmph = @ \cup {objId}]
    ELSE [u EXCEPT !.legEmph = @ \ {objId}]

\* every de-emphasized dot goes back to radVP, cross-species or not
RestoreRadius_AlwaysPlain(g, vSp) == radVP

\* radius a dot goes back to when it is de-emphasized
RestoreRadius(g, vSp) ==
    IF InVMP(g.vMP, vSp) /\ Len(VMPGet(g.vMP, vSp).antSpecies) > 1 THEN RadCross ELSE radVP

\* circles written by the loop over vpd for the dots of vSp
DotsWritten(g, vSp) ==
    UNION {SelectDot(g, DotId(g.vpd[i])) : i \in {j \in 1..Len(g.vpd) : g.vpd[j].vSp = vSp}}

\* elements appended when a virus is emphasized: connecting line, then label
EmphElems(vSp) == << <<"vPConnLine", vSp>>, <<"vpTxt", vSp>> >>

\* the events only name viruses that have a dot, so pts is never empty
emphVPDots(g, u, flagEmph, vSp) ==
    IF flagEmph
    THEN [u EXCEPT !.rAttr = [i \in DOMAIN @ |-> IF i \in DotsWritten(g, vSp) THEN RadEmph ELSE @[i]],
                   !.scene = @ \o EmphElems(vSp)]
    ELSE [u EXCEPT !.rAttr = [i \in DOMAIN @ |->
                                 IF i \in DotsWritten(g, vSp) THEN RestoreRadius(g, vSp) ELSE @[i]],
                   !.scene = RemoveFirst(RemoveFirst(@, <<"vpTxt", vSp>>), <<"vPConnLine", vSp>>)]

\* the id of an arc label is taken for the id of a virus
ETypeOf_ArcTxtAsVirus(objId) ==
    IF objId[1] = "legV" \/ objId[1] = "vDot" \/ objId[1] = "arcTxt" THEN "virus"
    ELSE IF objId[1] = "legCl" THEN "vClassification"
    ELSE objId[1]

\* entry type of an element id
ETypeOf(objId) ==
    IF objId[1] = "legV" \/ objId[1] = "vDot" THEN "virus"
    ELSE IF objId[1] = "legCl" THEN "vClassification"
    ELSE objId[1]

ENameOf(objId) == <<ETypeOf(objId), objId[2]>>

\* selectedEntry.push("virus_"+vSp), with no test for an entry already there
PushVirus(sel, vSp) == Append(sel, <<"virus", vSp>>)

\* loop over the viruses of a deselected classification
RECURSIVE DeselectAll(_, _, _, _)
DeselectAll(g, u, vSpArr, vi) ==
    IF vi > Len(vSpArr) THEN u
    ELSE LET vSp == vSpArr[vi]
             u1 == emphLegTxt(g, u, FALSE, <<"legV", vSp>>)
             u2 == emphVPDots(g, u1, FALSE, vSp)
             u3 == [u2 EXCEPT !.selectedEntry = arrayRemove(@, <<"virus", vSp>>)]
         IN DeselectAll(g, u3, vSpArr, vi + 1)

\* loop over the viruses of a selected classification
RECURSIVE SelectAll(_, _, _, _)
SelectAll(g, u, vSpArr, vi) ==
    IF vi > Len(vSpArr) THEN u
    ELSE LET vSp == vSpArr[vi]
             u1 == emphLegTxt(g, u, TRUE, <<"legV", vSp>>)
             u2 == emphVPDots(g, u1, TRUE, vSp)
             u3 == [u2 EXCEPT !.selectedEntry = PushVirus(@, vSp)]
         IN SelectAll(g, u3, vSpArr, vi + 1)

selectVirusEntry(g, u, objId) ==
    LET eType == ETypeOf(objId)
        vSp == objId[2]
        eName == ENameOf(objId)
    IN IF Includes(u.selectedEntry, eName)
       THEN IF eType = "virus"
            THEN LET u1 == emphLegTxt(g, u, FALSE, <<"legV", vSp>>)
                     u2 == emphVPDots(g, u1, FALSE, vSp)
                 IN [u2 EXCEPT !.selectedEntry = arrayRemove(@, eName)]
            ELSE IF eType = "vClassification"
            THEN LET u1 == emphLegTxt(g, u, FALSE, <<"legCl", vSp>>)
                     u2 == [u1 EXCEPT !.selectedEntry = arrayRemove(@, eName)]
                 IN DeselectAll(g, u2, TLegGet(g.tLeg, vSp), 1)
            ELSE u
       ELSE IF eType = "virus"
            THEN LET u1 == emphLegTxt(g, u, TRUE, <<"legV", vSp>>)
                     u2 == emphVPDots(g, u1, TRUE, vSp)
                 IN [u2 EXCEPT !.selectedEntry = Append(@, eName)]
            ELSE IF eType = "vClassification"
            THEN LET u1 == emphLegTxt(g, u, TRUE, <<"legCl", vSp>>)
                     u2 == [u1 EXCEPT !.selectedEntry = Append(@, eName)]
                 IN SelectAll(g, u2, TLegGet(g.tLeg, vSp), 1)
            ELSE u

----------------------------------------------------------------------------
(* Inputs: the text of data/ActiveViruses.csv                              *)

Title(sp, pop) == <<"Lasius", sp, pop>>

\* two ant species with three populations each
HeaderA ==
    <<VirusSpeciesTitle, ClassificationTitle,
      Title("niger", "P1"), Title("niger", "P2"), Title("niger", "P3"),
      Title("neglectus", "P1"), Title("neglectus", "P2"), Title("neglectus", "P3")>>

\* the same header line ending with a comma
HeaderB == HeaderA \o << <<>> >>

Headers == {HeaderA, HeaderB}

\* presence of a virus in the three populations of one species: nowhere, in
\* the first only, or in two of them
SpPatterns ==
    {<<"0", "0", "0">>, <<"1", "0", "0">>, <<"1", "1", "0">>,
     <<"0", "1", "1">>, <<"1", "0", "1">>}

\* presence fields of a well-formed data line
FullBodies == {x \o y : x \in SpPatterns, y \in SpPatterns}

\* a line that lacks its last field, a line with an empty and one with padded
\* presence fields, and a line ending with a comma
ShortBody == <<"1", "1", "1", "1", "1">>
OddBodies ==
    {ShortBody,
     <<"1", "", "0", "0", "0", "0">>,
     <<" 1", "0", "0", "0", "0", "0 ">>,
     <<"0", "1", "0", "0", "0", "1", "">>}

\* data lines tried under a header
Bodies(h) ==
    IF h = HeaderA THEN FullBodies \cup OddBodies
    ELSE OddBodies \cup {<<"1", "1", "0", "1", "0", "0">>, <<"0", "1", "1", "0", "0", "0">>}

\* name and classification of the virus on data line li
NameOfLine == <<"vB", "vA", "vC", "vD">>
ClassOfLine == <<"Picornavirales", "Picornavirales", "Unclassified", "Unclassified">>

MkData(h, n, b, cl) ==
    [header |-> h, rows |-> [li \in 1..n |-> <<NameOfLine[li], cl[li]>> \o b[li]]]

\* inputs of the interaction runs: a virus across both species, a virus with
\* several presences in one species, viruses with one presence
UIInputs ==
    {MkData(HeaderA, 3, << <<"1", "0", "0", "1", "0", "0">>,
                           <<"1", "0", "0", "0", "0", "0">>,
                           <<"0", "1", "1", "0", "0", "0">> >>,
            <<"Picornavirales", "Picornavirales", "Unclassified">>),
     MkData(HeaderA, 2, << <<"1", "1", "0", "0", "0", "0">>,
                           <<"0", "0", "0", "0", "1", "0">> >>,
            <<"Unclassified", "Unclassified">>)}

----------------------------------------------------------------------------
(* State machine *)

InitRest ==
    /\ pc = "fetching"
    /\ colTitle = <<>> /\ aSpNames = <<>> /\ csvData = <<>> /\ numVP = 0 /\ vMP = <<>>
    /\ vpd = <<>> /\ pad = <<>> /\ sad = <<>> /\ mad = <<>> /\ tLeg = <<>>
    /\ selectedEntry = <<>> /\ rAttr = <<>> /\ scene = <<>> /\ legEmph = {}
    /\ log = <<>>

Init == data \in UIInputs /\ InitRest

InitLoad ==
    /\ \E n \in 0..MaxRows : \E h \in Headers : \E b \in [1..n -> Bodies(h)] :
          data = MkData(h, n, b, ClassOfLine)
    /\ InitRest

\* the success callback of jQuery.ajax, from the parse to the drawing
success ==
    /\ pc = "fetching"
    /\ \E cT \in {ColTitleOf(data.header)} :
       \E names \in {ASpNamesOf(cT)} :
       \E p \in {ParseCSV(data)} :
       \E c \in {[colTitle |-> cT, aSpNames |-> names, csvData |-> p.csvData, numVP |-> p.numVP]} :
       \E a \in {Layout(c, AssignIndent(p.vMP, names))} :
       \E ok \in {~a.threw /\ ~MadThrows(c, a.vMP)} :
          /\ colTitle' = cT
          /\ aSpNames' = names
          /\ csvData' = p.csvData
          /\ numVP' = p.numVP
          /\ vMP' = a.vMP
          /\ vpd' = a.vpd
          /\ pad' = a.pad
          /\ sad' = a.sad
          /\ mad' = IF ok THEN MadOf(c, a.vMP) ELSE <<>>
          /\ tLeg' = IF ok THEN TLegSorted(a.tLeg) ELSE a.tLeg
          /\ rAttr' = IF ok THEN [i \in 1..Len(a.vpd) |-> a.vpd[i].r] ELSE <<>>
          /\ pc' = IF ok THEN "rendered" ELSE "threw"
    /\ UNCHANGED <<data, selectedEntry, scene, legEmph, log>>

\* the error callback: the status is logged, nothing is drawn
error ==
    /\ pc = "fetching"
    /\ pc' = "failed"
    /\ UNCHANGED <<data, loaded, ui>>

Graph == [vpd |-> vpd, vMP |-> vMP, tLeg |-> tLeg]

UIState == [selectedEntry |-> selectedEntry, rAttr |-> rAttr, scene |-> scene, legEmph |-> legEmph]

\* ids of the text elements that carry the click handler
ArcTxtIds == {<<"arcTxt", pad[k].text>> : k \in 1..Len(pad)}
             \cup {<<"arcTxt", sad[k].text>> : k \in 1..Len(sad)}

TextIds == ArcTxtIds \cup LegendIds(Graph)

\* the last two events: kind, entry name, whether the entry was selected when
\* the event arrived, and the radii and appended elements at that moment
Logged(ev, objId) ==
    LET e == [ev |-> ev, eName |-> ENameOf(objId),
              was |-> Includes(selectedEntry, ENameOf(objId)),
              r |-> rAttr, sc |-> scene]
    IN IF Len(log) < 2 THEN Append(log, e) ELSE <<log[2], e>>

\* an event handler: all three call selectVirusEntry on the element's id
Handle(ev, objId) ==
    /\ pc = "rendered"
    /\ \E u1 \in {selectVirusEntry(Graph, UIState, objId)} :
          /\ Len(u1.scene) <= MaxScene
          /\ selectedEntry' = u1.selectedEntry
          /\ rAttr' = u1.rAttr
          /\ scene' = u1.scene
          /\ legEmph' = u1.legEmph
    /\ log' = Logged(ev, objId)
    /\ UNCHANGED <<data, pc, loaded>>

onMouseOverVPD(i) == Handle("over", DotId(vpd[i]))

\* a pointer-leave that only ever de-emphasizes
onMouseOutVPD_DeselectOnly(i) ==
    IF Includes(selectedEntry, ENameOf(DotId(vpd[i])))
    THEN Handle("out", DotId(vpd[i]))
    ELSE /\ pc = "rendered"
         /\ log' = Logged("out", DotId(vpd[i]))
         /\ UNCHANGED <<data, pc, loaded, selectedEntry, rAttr, scene, legEmph>>

onMouseOutVPD(i) == Handle("out", DotId(vpd[i]))

onMouseClick(id) == Handle("click", id)

Next ==
    \/ success
    \/ error
    \/ \E i \in 1..Len(vpd) : onMouseOverVPD(i)
    \/ \E i \in 1..Len(vpd) : onMouseOutVPD(i)
    \/ \E id \in TextIds : onMouseClick(id)

Spec == Init /\ [][Next]_vars

NextLoad == success \/ error

SpecLoad == InitLoad /\ [][NextLoad]_vars

----------------------------------------------------------------------------
(* Vocabulary of the properties, read off the input text itself            *)

\* the success callback has run to its end or to an exception
Done == pc \in {"rendered", "threw"}

\* number of header fields that carry a title
NumTitles == Cardinality({j \in 1..Len(data.header) : data.header[j] # <<>>})

\* data lines that have a field for every title, in file order
KeptLines == {li \in 1..Len(data.rows) : Len(data.rows[li]) >= NumTitles}

\* the field of a data line under the j-th header field, blanks removed
RawCell(li, j) == Strip(data.rows[li][j])

\* header fields of the presence columns
PresenceCols == {j \in 3..Len(data.header) : data.header[j] # <<>>}

\* true-valued cells of a data line
TrueCols(li) == {j \in PresenceCols : j <= Len(data.rows[li]) /\ RawCell(li, j) = "1"}

\* ant species (category) of a presence column
SpeciesOfCol(j) == data.header[j][1] \o " " \o data.header[j][2]

SpeciesOfLine(li) == {SpeciesOfCol(j) : j \in TrueCols(li)}

NameOfRow(li) == data.rows[li][1]

RECURSIVE SumTrue(_)
SumTrue(S) ==
    IF S = {} THEN 0
    ELSE LET li == CHOOSE x \in S : TRUE
         IN Cardinality(TrueCols(li)) + SumTrue(S \ {li})

\* valid input: every kept line has a field for each header field, every
\* presence cell of a kept line is "0" or "1", and every species has three
\* population columns
ValidInput ==
    /\ \A li \in KeptLines : Len(data.rows[li]) >= Len(data.header)
    /\ \A li \in KeptLines : \A j \in PresenceCols : RawCell(li, j) \in {"0", "1"}
    /\ \A j \in PresenceCols :
          Cardinality({i \in PresenceCols : SpeciesOfCol(i) = SpeciesOfCol(j)}) = numPopulations

VMPNames == {vMP[k].vSp : k \in 1..Len(vMP)}

CrossIdx == {k \in 1..Len(vMP) : Len(vMP[k].antSpecies) > 1}

SingleIdx == {k \in 1..Len(vMP) : Len(vMP[k].antSpecies) <= 1}

----------------------------------------------------------------------------
(* C4 *)

\* C4: after the indentation assignment every record of the multi-presence
\* mapping has a level >= 1, and every cross-category record has a level
\* strictly greater than that of every single-category record of the mapping.
C4_IndentPositiveAndCrossDeeper ==
    Done =>
        /\ \A k \in 1..Len(vMP) : vMP[k].indentLevel \in Nat /\ vMP[k].indentLevel >= 1
        /\ \A k \in CrossIdx : \A j \in SingleIdx : vMP[k].indentLevel > vMP[j].indentLevel

\* a run with a cross-category record and a single-category record in the mapping
C4_Witness == Done /\ CrossIdx # {} /\ SingleIdx # {}

----------------------------------------------------------------------------
(* C5 *)

\* kept lines with a "1" in columns of two different species
TwoSpeciesLines == {li \in KeptLines : Cardinality(SpeciesOfLine(li)) = 2}

EntryOf(name) == vMP[CHOOSE k \in 1..Len(vMP) : vMP[k].vSp = name]

\* C5 as stated: every record with a "1" in columns of two different categories
\* is in the multi-presence mapping with an antSpecies list of length 2 and
\* no other record of the mapping has a greater indentation level.
C5_CrossIsDeepest ==
    Done =>
        \A li \in TwoSpeciesLines :
            /\ NameOfRow(li) \in VMPNames
            /\ Len(EntryOf(NameOfRow(li)).antSpecies) = 2
            /\ \A k \in 1..Len(vMP) : vMP[k].indentLevel <= EntryOf(NameOfRow(li)).indentLevel

\* C5 amended: every such record is in the mapping with an antSpecies list of
\* length 2 and a level greater than that of every single-category record;
\* the levels of such records are pairwise distinct, and the last of them in
\* mapping order has the greatest level of the mapping.
C5_CrossDeeperThanSingles ==
    Done =>
        /\ \A li \in TwoSpeciesLines :
              /\ NameOfRow(li) \in VMPNames
              /\ Len(EntryOf(NameOfRow(li)).antSpecies) = 2
              /\ \A j \in SingleIdx : vMP[j].indentLevel < EntryOf(NameOfRow(li)).indentLevel
        /\ \A k \in CrossIdx : \A j \in CrossIdx : k < j => vMP[k].indentLevel < vMP[j].indentLevel
        /\ CrossIdx # {} => \A k \in 1..Len(vMP) : vMP[k].indentLevel <= vMP[Max(CrossIdx)].indentLevel

\* a run with two records that span both species
C5_Witness == Done /\ Cardinality(TwoSpeciesLines) >= 2 /\ Cardinality(CrossIdx) >= 2

----------------------------------------------------------------------------
(* C8 *)

\* names of the records of the record list, in order
CsvNames == [i \in 1..Len(csvData) |-> csvData[i][VirusSpeciesTitle]]

\* names of the data lines of a set, in file order
RECURSIVE NamesInOrder(_, _)
NamesInOrder(S, li) ==
    IF li > Len(data.rows) THEN <<>>
    ELSE (IF li \in S THEN <<NameOfRow(li)>> ELSE <<>>) \o NamesInOrder(S, li + 1)

\* what the loader holds when exactly the lines of S were processed
LoadedExactly(S) ==
    /\ CsvNames = NamesInOrder(S, 1)
    /\ numVP = SumTrue(S)
    /\ VMPNames = {NameOfRow(li) : li \in {x \in S : Cardinality(TrueCols(x)) > 1}}

\* C8 as stated: a data line with fewer fields than the header line is skipped
\* (no record, nothing added to the count, no mapping entry), later lines are
\* still processed, and a line with at least as many fields is never skipped.
C8_SkipShorterThanHeaderRow ==
    Done => LoadedExactly({li \in 1..Len(data.rows) : Len(data.rows[li]) >= Len(data.header)})

\* C8 amended: the same with "fewer fields than the header line has titled
\* (non-blank) fields": exactly the lines with a field for every titled header
\* field are processed, each of them whatever lines precede it.
C8_SkipShorterThanTitles == Done => LoadedExactly(KeptLines)

\* a run in which a short line precedes a line that is processed
C8_Witness ==
    /\ Done
    /\ \E li \in 1..Len(data.rows) : \E lj \in KeptLines :
          li \notin KeptLines /\ li < lj /\ Cardinality(TrueCols(li)) > 1
          /\ Cardinality(TrueCols(lj)) > 0

----------------------------------------------------------------------------
(* C9 *)

\* the largest per-species counter of single-category records of the mapping
MaxSingleCounter ==
    Max({Cardinality({k \in SingleIdx : Includes(vMP[k].antSpecies, aSpNames[si])}) :
            si \in 1..Len(aSpNames)})

\* position of a cross-category record among the cross-category records
CrossPos(k) == Cardinality({j \in CrossIdx : j <= k})

\* C9: the cross-category records get the levels max + 1, max + 2, ... in
\* mapping order, max being the largest per-category counter.
C9_CrossLevelsFromMaxPlusOne ==
    Done => \A k \in CrossIdx : vMP[k].indentLevel = MaxSingleCounter + CrossPos(k)

----------------------------------------------------------------------------
(* C10 *)

\* dots of a population, and of a species
DotsOfPop(si, pi) == {i \in 1..Len(vpd) : vpd[i].aSi = si /\ vpd[i].aPi = pi}

DotsOfSp(si) == {i \in 1..Len(vpd) : vpd[i].aSi = si}

\* an arc covers the slot of a dot when the dot's angle (+90, as d3.arc counts)
\* lies between its begin and its end
Covered(arc) ==
    {i \in 1..Len(vpd) :
        arc.bDeg < vpd[i].deg + DegU(90, numVP) /\ vpd[i].deg + DegU(90, numVP) < arc.eDeg}

\* the arc spans exactly the slots of the dots D: half a slot before the first,
\* half a slot after the last, and it covers no slot of another dot
SpansExactly(arc, D) ==
    /\ Covered(arc) = D
    /\ D # {} =>
          /\ arc.bDeg = Min({vpd[i].deg : i \in D}) + DegU(90, numVP) - (vpDeg \div 2)
          /\ arc.eDeg = Max({vpd[i].deg : i \in D}) + DegU(90, numVP) + (vpDeg \div 2)

\* C10: the arc of every sub-group and of every category spans exactly the
\* slots consumed by its own dots, whatever the number of its presences, so
\* the arcs of two sub-groups cover no common slot.
C10_ArcsSpanOwnSlots ==
    Done =>
        /\ \A k \in 1..Len(pad) : SpansExactly(pad[k], DotsOfPop(pad[k].aSi, pad[k].aPi))
        /\ \A k \in 1..Len(sad) : SpansExactly(sad[k], DotsOfSp(sad[k].aSi))
        /\ \A k \in 1..Len(pad) : \A j \in 1..Len(pad) :
              k # j => Covered(pad[k]) \cap Covered(pad[j]) = {}

\* what does hold: the arc of a sub-group or category that has a dot begins
\* half a slot before its first slot and ends half a slot after its last one
C10_NonEmptyArcsSpanOwnSlots ==
    Done =>
        /\ \A k \in 1..Len(pad) : DotsOfPop(pad[k].aSi, pad[k].aPi) # {}
              => SpansExactly(pad[k], DotsOfPop(pad[k].aSi, pad[k].aPi))
        /\ \A k \in 1..Len(sad) : DotsOfSp(sad[k].aSi) # {}
              => SpansExactly(sad[k], DotsOfSp(sad[k].aSi))

----------------------------------------------------------------------------
(* C1 *)

\* C1: for every valid input the number of presence dots produced by the
\* layout pass equals numVP.
C1_DotCountIsNumVP == (Done /\ ValidInput) => Len(vpd) = numVP

\* what does hold: the counts agree whenever the layout pass reaches its end
C1_DotCountIsNumVPWhenDrawn == (pc = "rendered" /\ ValidInput) => Len(vpd) = numVP

----------------------------------------------------------------------------
(* C6 *)

\* the kept data lines in file order
KeptSeq == SelectSeq([li \in 1..Len(data.rows) |-> li], LAMBDA li : li \in KeptLines)

\* true presence flags as (category, sub-group, record), 0-based
TrueFlags ==
    {f \in (0..(Len(aSpNames) - 1)) \X (0..(numPopulations - 1)) \X (0..(Len(KeptSeq) - 1)) :
        RawCell(KeptSeq[f[3] + 1], 3 + f[1] * numPopulations + f[2]) = "1"}

\* traversal order: category, then sub-group, then record
Before(f, g) ==
    \/ f[1] < g[1]
    \/ f[1] = g[1] /\ f[2] < g[2]
    \/ f[1] = g[1] /\ f[2] = g[2] /\ f[3] < g[3]

RankOf(f) == Cardinality({g \in TrueFlags : Before(g, f)})

\* slot of a dot, from its angle
SlotOf(d) == (d.deg - DegU(180, numVP)) \div vpDeg

SlotsPartition ==
    /\ \A f \in TrueFlags :
          \E i \in 1..Len(vpd) :
             /\ vpd[i].aSi = f[1] /\ vpd[i].aPi = f[2]
             /\ vpd[i].vSp = NameOfRow(KeptSeq[f[3] + 1])
             /\ vpd[i].deg = DegU(180, numVP) + RankOf(f) * vpDeg
    /\ \A i \in 1..Len(vpd) : \A j \in 1..Len(vpd) : i < j => vpd[i].deg < vpd[j].deg
    /\ \A k \in 0..(numVP - 1) : Cardinality({i \in 1..Len(vpd) : SlotOf(vpd[i]) = k}) = 1
    /\ \A i \in 1..Len(vpd) : SlotOf(vpd[i]) \in 0..(numVP - 1)

\* C6: the k-th true presence flag in traversal order gets slot k at angle
\* 180 + k*(360/numVP), the slot counter only increases, every slot
\* 0..numVP-1 is held by exactly one dot and no slot >= numVP is assigned.
C6_SlotsPartitionCircle == (Done /\ ValidInput) => SlotsPartition

\* what does hold: the same whenever the layout pass reaches its end
C6_SlotsPartitionCircleWhenDrawn == (pc = "rendered" /\ ValidInput) => SlotsPartition

\* the inputs never draw a dot while numVP is 0, so every stored angle is finite
FiniteAngles == numVP = 0 => vpd = <<>>

----------------------------------------------------------------------------
(* Vocabulary of the selection properties *)

Selected(eName) == Includes(selectedEntry, eName)

\* the last event and the one before it
Last == log[Len(log)]

\* the last two events hit the same entry, one right after the other
TwiceSame == Len(log) = 2 /\ log[1].eName = log[2].eName

Count(seq, x) == Cardinality({i \in 1..Len(seq) : seq[i] = x})

----------------------------------------------------------------------------
(* C7 *)

\* C7: every trigger event on a record (pointer-enter, pointer-leave, legend
\* click) flips the record's membership in the selection set; so an enter and
\* a leave from unselected end unselected, a second leave right after a leave
\* selects the record again, and a record selected by a legend click is
\* unselected once the pointer has entered one of its dots.
C7_EveryTriggerToggles ==
    (pc = "rendered" /\ log # <<>>) =>
        /\ Last.eName[1] = "virus" => (Selected(Last.eName) <=> ~Last.was)
        /\ (TwiceSame /\ log[1].ev = "over" /\ log[2].ev = "out" /\ ~log[1].was)
              => ~Selected(Last.eName)
        /\ (TwiceSame /\ log[1].ev = "out" /\ log[2].ev = "out" /\ log[1].was)
              => Selected(Last.eName)
        /\ (TwiceSame /\ log[1].ev = "click" /\ log[1].eName[1] = "virus" /\ ~log[1].was
                /\ log[2].ev = "over")
              => ~Selected(Last.eName)

\* a leave, then a second leave of the same record with no enter between them,
\* after which the record is selected again
C7_Witness ==
    /\ pc = "rendered" /\ TwiceSame
    /\ log[1].ev = "out" /\ log[2].ev = "out" /\ log[1].was
    /\ Selected(Last.eName)

----------------------------------------------------------------------------
(* C3 *)

NoDuplicates(seq) == \A i \in 1..Len(seq) : \A j \in 1..Len(seq) : seq[i] = seq[j] => i = j

\* C3: toggling a classification to selected puts every record listed under
\* it into the selection set, toggling it to unselected removes every one of
\* them, and the selection set never holds an identifier more than once.
C3_ClassificationSelectsAllNoDuplicates ==
    (pc = "rendered" /\ log # <<>>) =>
        /\ Last.eName[1] = "vClassification" =>
              \A j \in 1..Len(TLegGet(tLeg, Last.eName[2])) :
                  Selected(<<"virus", TLegGet(tLeg, Last.eName[2])[j]>>) <=> ~Last.was
        /\ NoDuplicates(selectedEntry)

\* what does hold: the two toggles of a classification
C3_ClassificationSelectsAll ==
    (pc = "rendered" /\ log # <<>> /\ Last.eName[1] = "vClassification") =>
        \A j \in 1..Len(TLegGet(tLeg, Last.eName[2])) :
            Selected(<<"virus", TLegGet(tLeg, Last.eName[2])[j]>>) <=> ~Last.was

----------------------------------------------------------------------------
(* C2 *)

\* C2: when an unselected record or classification entry is toggled to
\* selected and then again to unselected, every dot has the radius it had
\* before the selection and the scene holds no line or label more than before.
C2_SelectDeselectRestores ==
    (pc = "rendered" /\ TwiceSame /\ log[1].eName[1] \in {"virus", "vClassification"}
        /\ ~log[1].was /\ log[2].was)
    => /\ rAttr = log[1].r
       /\ \A i \in 1..Len(scene) : Count(scene, scene[i]) <= Count(log[1].sc, scene[i])

\* what does hold: the round trip of an entry none of whose records is
\* selected at its start
C2_SelectDeselectRestoresFromNothingSelected ==
    (pc = "rendered" /\ TwiceSame /\ log[1].eName[1] \in {"virus", "vClassification"}
        /\ ~log[1].was /\ log[2].was /\ log[1].sc = <<>>)
    => /\ rAttr = log[1].r
       /\ scene = <<>>

----------------------------------------------------------------------------
(* C11 *)

\* dots of a record
DotsOfRecord(name) == {i \in 1..Len(vpd) : vpd[i].vSp = name}

\* angle of a dot as d3.arc counts it
ArcAngle(i) == vpd[i].deg + DegU(90, numVP)

\* the mapping entry holds one angle per dot of its record, as many as its
\* presence count, and the arc of the record runs from the least to the
\* greatest of them
AnglesAndArcOf(k) ==
    /\ vMP[k].presenceCnt >= 2
    /\ Len(vMP[k].degArr) = vMP[k].presenceCnt
    /\ Cardinality(DotsOfRecord(vMP[k].vSp)) = vMP[k].presenceCnt
    /\ Range(vMP[k].degArr) = {ArcAngle(i) : i \in DotsOfRecord(vMP[k].vSp)}
    /\ k <= Len(mad)
    /\ mad[k].vSp = vMP[k].vSp
    /\ mad[k].bDeg = Min({ArcAngle(i) : i \in DotsOfRecord(vMP[k].vSp)})
    /\ mad[k].eDeg = Max({ArcAngle(i) : i \in DotsOfRecord(vMP[k].vSp)})

\* C11: for every record of the multi-presence mapping the layout pass
\* records one angle per presence dot of the record (as many angles as its
\* presence count, hence at least two), and the arc of the record spans from
\* the minimum to the maximum of these angles.
C11_AnglePerDotAndArcSpansThem ==
    (Done /\ ValidInput) => \A k \in 1..Len(vMP) : AnglesAndArcOf(k)

\* what does hold: the same whenever the callback reaches its end
C11_AnglePerDotAndArcSpansThemWhenDrawn ==
    (pc = "rendered" /\ ValidInput) =>
        /\ Len(mad) = Len(vMP)
        /\ \A k \in 1..Len(vMP) : AnglesAndArcOf(k)

\* the layout pass reached its end with a record in the mapping, and the
\* loop that makes the arcs ended with an exception
ArcLoopThrew == pc = "threw" /\ Len(sad) = Len(aSpNames) /\ vMP # <<>>

----------------------------------------------------------------------------
(* C12 *)

\* names of the records that have a dot
DrawnNames == {vpd[i].vSp : i \in 1..Len(vpd)}

\* connecting lines and floating labels of a record in the scene
Lines(v) == Count(scene, <<"vPConnLine", v>>)

Labels(v) == Count(scene, <<"vpTxt", v>>)

\* C12: in every state reached by record and classification toggles the
\* scene holds exactly one connecting line and exactly one floating label for
\* a record that is in the selection set, and none of either for a record
\* that is not.
C12_OneLineAndLabelIffSelected ==
    pc = "rendered" =>
        \A v \in DrawnNames :
            /\ Selected(<<"virus", v>>) => Lines(v) = 1 /\ Labels(v) = 1
            /\ ~Selected(<<"virus", v>>) => Lines(v) = 0 /\ Labels(v) = 0

\* what does hold: lines and labels come in pairs, and a record has at least
\* as many pairs as it has entries in the selection set
C12_LineAndLabelPerSelectionEntry ==
    pc = "rendered" =>
        \A v \in DrawnNames :
            /\ Lines(v) = Labels(v)
            /\ Lines(v) >= Count(selectedEntry, <<"virus", v>>)

\* a line and a label left behind for a record that is not selected
OrphanLineAndLabel ==
    /\ pc = "rendered"
    /\ \E v \in DrawnNames : ~Selected(<<"virus", v>>) /\ Lines(v) = 1 /\ Labels(v) = 1

----------------------------------------------------------------------------
(* C13 *)

\* the kept data line of a record
LineOfName(v) == CHOOSE li \in KeptLines : NameOfRow(li) = v

\* the record has a true cell in columns of more than one category
CrossCategory(v) == Cardinality(SpeciesOfLine(LineOfName(v))) > 1

\* computed base radius of the dots of a record
BaseRadius(v) == IF CrossCategory(v) THEN RadCross ELSE radVP

\* C13: in every state reached by record and classification toggles the
\* rendered radius of a presence dot is 1.5 x radVP exactly when its record is
\* in the selection set, and otherwise its base radius (radVP, or 1.25 x radVP
\* for a cross-category record).
C13_RadiusFollowsSelection ==
    pc = "rendered" =>
        \A i \in 1..Len(vpd) :
            rAttr[i] = IF Selected(<<"virus", vpd[i].vSp>>) THEN RadEmph
                       ELSE BaseRadius(vpd[i].vSp)

\* a cross-category record selected through its classification has just been
\* toggled to unselected through one of its dots: its dots are back at
\* 1.25 x radVP while another record of the classification is still enlarged
C13_Witness ==
    /\ pc = "rendered" /\ log # <<>>
    /\ Last.eName[1] = "virus" /\ Last.ev = "over" /\ Last.was
    /\ CrossCategory(Last.eName[2])
    /\ ~Selected(Last.eName)
    /\ \E i \in 1..Len(vpd) : vpd[i].vSp = Last.eName[2] /\ rAttr[i] = RadCross
    /\ \E i \in 1..Len(vpd) :
          /\ vpd[i].vSp # Last.eName[2]
          /\ Selected(<<"vClassification", vpd[i].vCl>>)
          /\ Selected(<<"virus", vpd[i].vSp>>)
          /\ rAttr[i] = RadEmph

----------------------------------------------------------------------------
(* C14 *)

\* two arcs share an angle
ArcsOverlap(a, b) == a.bDeg <= b.eDeg /\ b.bDeg <= a.eDeg

\* the angular range of a record of the mapping, from its recorded angles
HasRange(k) == vMP[k].degArr # <<>>

RangeOf(k) == [bDeg |-> Min(Range(vMP[k].degArr)), eDeg |-> Max(Range(vMP[k].degArr))]

\* single-category records of the mapping that lie in a category
SinglesOf(aSp) == {k \in SingleIdx : Includes(vMP[k].antSpecies, aSp)}

CrossArcsOverlap ==
    /\ pc = "rendered"
    /\ \E k \in CrossIdx : \E j \in CrossIdx : k < j /\ ArcsOverlap(mad[k], mad[j])

\* single-category records of both categories are drawn
SinglesOfBothCategories ==
    /\ pc = "rendered"
    /\ \E k \in SingleIdx : \E j \in SingleIdx : vMP[k].antSpecies # vMP[j].antSpecies

----------------------------------------------------------------------------
(* C15 *)

\* a click on the label of a category arc or of a sub-group arc
ArcLabelClick == \E id \in ArcTxtIds : onMouseClick(id)

\* C15: a click on a category or sub-group arc label leaves the selection
\* set, every dot radius, every line and label and the legend emphasis
\* unchanged, in whatever state it occurs.
C15_ArcLabelClickChangesNothing ==
    [][ArcLabelClick => UNCHANGED <<selectedEntry, rAttr, scene, legEmph>>]_vars

\* a sub-group label and then a category label have been clicked while a
\* record and a classification were selected, and nothing has changed
C15_Witness ==
    /\ pc = "rendered" /\ Len(log) = 2
    /\ log[1].ev = "click" /\ log[1].eName[1] = "arcTxt"
    /\ \E k \in 1..Len(pad) : log[1].eName[2] = pad[k].text
    /\ log[2].ev = "click" /\ log[2].eName[1] = "arcTxt"
    /\ \E k \in 1..Len(sad) : log[2].eName[2] = sad[k].text
    /\ \E i \in 1..Len(selectedEntry) : selectedEntry[i][1] = "virus"
    /\ \E i \in 1..Len(selectedEntry) : selectedEntry[i][1] = "vClassification"
    /\ scene # <<>> /\ scene = log[1].sc /\ rAttr = log[1].r
    /\ \E i \in 1..Len(rAttr) : rAttr[i] = RadEmph

====
